---- MODULE Spec2Model ----
(***************************************************************************)
(* InlineKeyboardMarkup (telegram/inline/inlinekeyboardmarkup.py): a grid  *)
(* of buttons held as a Python list of lists.  Python lists are objects,   *)
(* so the model keeps a heap: rowHeap holds the row lists, outerHeap the   *)
(* lists of rows, and a markup's inline_keyboard is a reference into       *)
(* outerHeap.  Python indices are 0-based; TLA+ sequences are 1-based, so  *)
(* Python index i is position i + 1.                                       *)
(***************************************************************************)
EXTENDS Integers, Sequences, FiniteSets

VARIABLES rowHeap, outerHeap, grid, heldOuter, heldRows, last, pre

vars == <<rowHeap, outerHeap, grid, heldOuter, heldRows, last, pre>>

\* ---------------------------------------------------------------- bounds
\* a list of rows holds at most MaxRows rows and MaxButtons buttons in all
MaxRows == 3
MaxButtons == 2

\* ------------------------------------------------------------- universes
Grids == {"A", "B"}
Buttons == {"x", "y"}
\* an optional int argument: {} is None, {v} is the value v
None == {}
RowArgs == {None} \cup {{v} : v \in (0 - MaxRows)..MaxRows}
NewRowArgs == {None} \cup {{v} : v \in (0 - 1)..MaxRows}
ColArgs == {None} \cup {{v} : v \in (0 - 1)..MaxButtons}
Val(o) == CHOOSE v \in o : TRUE

Min(a, b) == IF a <= b THEN a ELSE b
Max(a, b) == IF a >= b THEN a ELSE b

RECURSIVE Total(_, _)
Total(rows, i) == IF i > Len(rows) THEN 0 ELSE Len(rows[i]) + Total(rows, i + 1)

\* the lists of at most m elements of E, and the lists of n such lists
\* that hold at most m elements in all
ListsOf(E, m) == UNION {[1..k -> E] : k \in 0..m}
RECURSIVE ListsOfLists(_, _, _)
ListsOfLists(E, n, m) ==
    IF n = 0 THEN {<<>>}
    ELSE UNION {{<<r>> \o rest : rest \in ListsOfLists(E, n - 1, m - Len(r))} :
                   r \in ListsOf(E, m)}

RowValues == ListsOf(Buttons, MaxButtons)
RowsValues == UNION {ListsOfLists(Buttons, n, MaxButtons) : n \in 0..MaxRows}

\* ---------------------------------------------------- Python list helpers
\* list.insert(i, x): a negative i counts from the end, then floors at 0;
\* an i past the end appends
ListInsert(s, i, x) ==
    LET j == IF i < 0 THEN Max(i + Len(s), 0) ELSE Min(i, Len(s))
    IN  SubSeq(s, 1, j) \o <<x>> \o SubSeq(s, j + 1, Len(s))

\* s[i] for a Python index i is legal when -len <= i < len
IndexOk(s, i) == (0 - Len(s)) <= i /\ i < Len(s)
\* the 1-based position s[i] reads
Pos(s, i) == IF i < 0 THEN i + Len(s) + 1 ELSE i + 1

\* the rows of the list of rows k, as values
View(rh, oh, k) == [i \in 1..Len(oh[k]) |-> rh[oh[k][i]]]

\* ------------------------------------------------------------ add_button
interval_value(lower, upper, value) == Min(Max(lower, value), upper)

Fail(rh, oh, e) == [err |-> e, rowHeap |-> rh, outerHeap |-> oh]
Ok(rh, oh) == [err |-> "none", rowHeap |-> rh, outerHeap |-> oh]

\* self.inline_keyboard[ti].insert(ci, button), both indices already computed
InsertInRow(rh, oh, k, ti, ci, button) ==
    LET r == oh[k][Pos(oh[k], ti)]
    IN  Ok([rh EXCEPT ![r] = ListInsert(rh[r], ci, button)], oh)

\* a plausible slip: the button goes into the clamped row before the range
\* check raises
ExistingRowLateCheck(rh, oh, k, button, fr, insert_column) ==
    LET kb == oh[k]
        max_row == Len(kb) - 1
        ti == interval_value(0, max_row, fr)
    IN  IF ~IndexOk(kb, ti) THEN Fail(rh, oh, "IndexError")
        ELSE LET done == InsertInRow(rh, oh, k, ti, Len(rh[kb[Pos(kb, ti)]]), button)
             IN  IF fr > max_row THEN Fail(done.rowHeap, done.outerHeap, "IndexError")
                 ELSE done

\* from_row given, insert_row not: the button goes into an existing row.
\* The row is self.inline_keyboard[clamped from_row]; the column's upper
\* bound is read from self.inline_keyboard[from_row], from_row as passed.
ExistingRow(rh, oh, k, button, fr, insert_column) ==
    LET kb == oh[k]
        max_row == Len(kb) - 1
        ti == interval_value(0, max_row, fr)
    IN
    IF fr > max_row THEN Fail(rh, oh, "IndexError")
    ELSE IF ~IndexOk(kb, ti) THEN Fail(rh, oh, "IndexError")
    ELSE IF insert_column # None THEN
        IF ~IndexOk(kb, fr) THEN Fail(rh, oh, "IndexError")
        ELSE InsertInRow(rh, oh, k, ti,
                 interval_value(0, Len(rh[kb[Pos(kb, fr)]]), Val(insert_column)),
                 button)
    ELSE InsertInRow(rh, oh, k, ti, Len(rh[kb[Pos(kb, ti)]]), button)

\* a plausible slip: the new row's index clamped to max_row, not max_row + 1
NewRowUpToMaxRow(rh, oh, k, button, ir) ==
    LET kb == oh[k]
        max_row == Len(kb) - 1
    IN  Ok(Append(rh, <<button>>),
           [oh EXCEPT ![k] = ListInsert(kb, interval_value(0, max_row, ir),
                                        Len(rh) + 1)])

\* insert_row given, from_row not: a new row [button] goes into the list of rows
NewRow(rh, oh, k, button, ir) ==
    LET kb == oh[k]
        max_row == Len(kb) - 1
    IN  Ok(Append(rh, <<button>>),
           [oh EXCEPT ![k] = ListInsert(kb, interval_value(0, max_row + 1, ir),
                                        Len(rh) + 1)])

\* neither given: the button goes into self.inline_keyboard[-1]
LastRow(rh, oh, k, button, insert_column) ==
    LET kb == oh[k]
    IN
    IF ~IndexOk(kb, -1) THEN Fail(rh, oh, "IndexError")
    ELSE IF insert_column # None THEN
        InsertInRow(rh, oh, k, -1,
            interval_value(0, Len(rh[kb[Pos(kb, -1)]]), Val(insert_column)),
            button)
    ELSE InsertInRow(rh, oh, k, -1, Len(rh[kb[Pos(kb, -1)]]), button)

add_button(rh, oh, k, button, from_row, insert_row, insert_column) ==
    IF from_row # None /\ insert_row = None THEN
        ExistingRow(rh, oh, k, button, Val(from_row), insert_column)
    ELSE IF from_row = None /\ insert_row # None THEN
        NewRow(rh, oh, k, button, Val(insert_row))
    ELSE IF from_row = None /\ insert_row = None THEN
        LastRow(rh, oh, k, button, insert_column)
    ELSE Fail(rh, oh, "AttributeError")

\* ---------------------------------------------------------- construction
\* __init__: a fresh [[]] when inline_keyboard is None, else the very list
\* that was passed (no copy)
__init__(rh, oh, inline_keyboard) ==
    IF inline_keyboard = None
    THEN [rowHeap |-> Append(rh, <<>>),
          outerHeap |-> Append(oh, <<Len(rh) + 1>>),
          ref |-> Len(oh) + 1]
    ELSE [rowHeap |-> rh, outerHeap |-> oh, ref |-> Val(inline_keyboard)]

\* a new list of new row lists holding the value rows
NewLists(rh, oh, rows) ==
    [rowHeap |-> rh \o rows,
     outerHeap |-> Append(oh, [i \in 1..Len(rows) |-> Len(rh) + i]),
     ref |-> Len(oh) + 1]

\* cls([[button]])
from_button(rh, oh, button) ==
    LET n == NewLists(rh, oh, <<<<button>>>>)
    IN  __init__(n.rowHeap, n.outerHeap, {n.ref})

\* cls([button_row]): the new outer list holds the caller's row list r itself
from_row(rh, oh, r) ==
    __init__(rh, Append(oh, <<r>>), {Len(oh) + 1})

\* button_grid = [[button] for button in button_column]; cls(button_grid)
from_column(rh, oh, button_column) ==
    LET n == NewLists(rh, oh, [i \in 1..Len(button_column) |-> <<button_column[i]>>])
    IN  __init__(n.rowHeap, n.outerHeap, {n.ref})

\* ------------------------------------------------------- the Button type
\* InlineKeyboardButton is opaque here: its to_dict gives a mapping with the
\* button's fields, its de_json gives no value for an empty mapping, and its
\* equality and hash go by its fields.
EmptyButtonDict == [keys |-> {}, text |-> ""]
ButtonToDict(b) == [keys |-> {"text"}, text |-> b]
ButtonDeJson(d) == IF d.keys = {} THEN None ELSE {d.text}
ButtonEq(a, b) == a = b
ButtonHash(b) == b

\* --------------------------------------------------------- serialization
NoneData == [isNone |-> TRUE, keys |-> {}, inline_keyboard |-> <<>>]
EmptyData == [isNone |-> FALSE, keys |-> {}, inline_keyboard |-> <<>>]

\* data['inline_keyboard'] = [[x.to_dict() for x in row] for row in rows];
\* the base to_dict adds no key of its own
to_dict(rows) ==
    [isNone |-> FALSE, keys |-> {"inline_keyboard"},
     inline_keyboard |->
        [i \in 1..Len(rows) |-> [j \in 1..Len(rows[i]) |-> ButtonToDict(rows[i][j])]]]

\* TelegramObject.parse_data: None for no data, else a copy
parse_data(d) == IF d.isNone \/ d.keys = {} THEN NoneData ELSE d

\* a plausible slip: the row's loop ends at the first button without a value
RECURSIVE RowDeJsonStopAtNone(_, _, _)
RowDeJsonStopAtNone(row, j, tmp) ==
    IF j > Len(row) THEN tmp
    ELSE LET btn == ButtonDeJson(row[j])
         IN  IF btn # None THEN RowDeJsonStopAtNone(row, j + 1, Append(tmp, Val(btn)))
             ELSE tmp

\* the inner loop of de_json: tmp keeps the buttons that deserialize to a value
RECURSIVE RowDeJson(_, _, _)
RowDeJson(row, j, tmp) ==
    IF j > Len(row) THEN tmp
    ELSE LET btn == ButtonDeJson(row[j])
         IN  IF btn # None THEN RowDeJson(row, j + 1, Append(tmp, Val(btn)))
             ELSE RowDeJson(row, j + 1, tmp)

\* a plausible slip: a row is appended only when it holds a button
RECURSIVE KeyboardDeJsonNoEmpty(_, _, _)
KeyboardDeJsonNoEmpty(rows, i, keyboard) ==
    IF i > Len(rows) THEN keyboard
    ELSE LET tmp == RowDeJson(rows[i], 1, <<>>)
         IN  KeyboardDeJsonNoEmpty(rows, i + 1,
                 IF tmp = <<>> THEN keyboard ELSE Append(keyboard, tmp))

\* the outer loop of de_json: every row is appended, empty or not
RECURSIVE KeyboardDeJson(_, _, _)
KeyboardDeJson(rows, i, keyboard) ==
    IF i > Len(rows) THEN keyboard
    ELSE KeyboardDeJson(rows, i + 1, Append(keyboard, RowDeJson(rows[i], 1, <<>>)))

\* de_json as a value: None, or {keyboard} for cls(keyboard)
de_json(d) ==
    LET pd == parse_data(d)
    IN  IF pd.isNone \/ pd.keys = {} THEN None
        ELSE {KeyboardDeJson(pd.inline_keyboard, 1, <<>>)}

\* ------------------------------------------------------ equality and hash
Markup(rows) == [class |-> "InlineKeyboardMarkup", inline_keyboard |-> rows]
Foreign(rows) == [class |-> "ReplyKeyboardMarkup", inline_keyboard |-> rows]

\* for jdx, button in enumerate(row): if button != other_row[jdx]: return False
RECURSIVE EqButtons(_, _, _)
EqButtons(row, other_row, jdx) ==
    IF jdx > Len(row) THEN TRUE
    ELSE IF ~ButtonEq(row[jdx], other_row[jdx]) THEN FALSE
    ELSE EqButtons(row, other_row, jdx + 1)

\* a plausible slip: the rows compared pairwise as far as the shorter one
\* goes, their lengths never compared
RECURSIVE EqRowsNoLength(_, _, _)
EqRowsNoLength(rows, other_rows, idx) ==
    IF idx > Len(rows) THEN TRUE
    ELSE IF \E j \in 1..Min(Len(rows[idx]), Len(other_rows[idx])) :
                ~ButtonEq(rows[idx][j], other_rows[idx][j]) THEN FALSE
    ELSE EqRowsNoLength(rows, other_rows, idx + 1)

\* for idx, row in enumerate(self.inline_keyboard): ...
RECURSIVE EqRows(_, _, _)
EqRows(rows, other_rows, idx) ==
    IF idx > Len(rows) THEN TRUE
    ELSE IF Len(rows[idx]) # Len(other_rows[idx]) THEN FALSE
    ELSE IF ~EqButtons(rows[idx], other_rows[idx], 1) THEN FALSE
    ELSE EqRows(rows, other_rows, idx + 1)

\* the base class's __eq__ for an object of another class: not equal
SuperEq(rows, other) == FALSE

__eq__(rows, other) ==
    IF other.class = "InlineKeyboardMarkup" THEN
        IF Len(rows) # Len(other.inline_keyboard) THEN FALSE
        ELSE EqRows(rows, other.inline_keyboard, 1)
    ELSE SuperEq(rows, other)

\* hash(tuple(...)): equal tuples hash alike; the tuple of the elements'
\* hashes stands for the hash value
__hash__(rows) ==
    [i \in 1..Len(rows) |-> [j \in 1..Len(rows[i]) |-> ButtonHash(rows[i][j])]]

\* --------------------------------------------------------------- merging
\* add_from_markup(markup, index): markup's rows go into this markup's list
\* of rows at index, after the last row when no index is given; the rows
\* are new lists holding markup's buttons.  (add_from_markup_at_end is the
\* slip of ignoring index.)
add_from_markup_at_end(rh, oh, k, other_rows, index) ==
    Ok(rh \o other_rows,
       [oh EXCEPT ![k] = oh[k] \o [i \in 1..Len(other_rows) |-> Len(rh) + i]])

add_from_markup(rh, oh, k, other_rows, index) ==
    LET at == IF index = None THEN Len(oh[k]) ELSE Val(index)
        refs == [i \in 1..Len(other_rows) |-> Len(rh) + i]
    IN  Ok(rh \o other_rows,
           [oh EXCEPT ![k] = SubSeq(oh[k], 1, at) \o refs
                                \o SubSeq(oh[k], at + 1, Len(oh[k]))])

\* ----------------------------------------------------------------- state
\* grid[g] is the outerHeap reference held in g.inline_keyboard, 0 before g
\* is constructed.  heldOuter and heldRows are the lists the caller built
\* and passed to a constructor (the caller still holds them).  last is the
\* call that has just returned and pre the heap as it was before that call;
\* both are cleared when the caller moves on (Return).
GridOrder == <<"A", "B">>

NoCall == [op |-> "none", g |-> "A", button |-> "x", from_row |-> None,
           insert_row |-> None, insert_column |-> None, err |-> "none",
           other |-> "A", index |-> None, ret |-> 0]

NoPre == [rowHeap |-> <<>>, outerHeap |-> <<>>]

Constructed(g) == grid[g] # 0

WithinBounds(rh, oh) ==
    \A k \in 1..Len(oh) :
        Len(oh[k]) <= MaxRows /\ Total(View(rh, oh, k), 1) <= MaxButtons

\* Heap addresses carry no meaning: after every call the objects are
\* renumbered in the order a walk from GridOrder meets them, and pre is the
\* heap before the call under the same renumbering (objects the call
\* allocated are absent from it).
RECURSIVE DedupFrom(_, _, _)
DedupFrom(s, i, acc) ==
    IF i > Len(s) THEN acc
    ELSE IF \E j \in 1..Len(acc) : acc[j] = s[i] THEN DedupFrom(s, i + 1, acc)
    ELSE DedupFrom(s, i + 1, Append(acc, s[i]))
Dedup(s) == DedupFrom(s, 1, <<>>)

IndexOf(s, x) == CHOOSE i \in 1..Len(s) : s[i] = x

RECURSIVE Flatten(_, _, _)
Flatten(oh, ks, i) ==
    IF i > Len(ks) THEN <<>> ELSE oh[ks[i]] \o Flatten(oh, ks, i + 1)

OuterOrder(grid2) ==
    Dedup(SelectSeq([i \in 1..Len(GridOrder) |-> grid2[GridOrder[i]]],
                    LAMBDA k : k # 0))

Commit(call, rh2, oh2, grid2, ho2, hr2) ==
    LET OO == OuterOrder(grid2)
        RO == Dedup(Flatten(oh2, OO, 1))
        relabel(row) == [i \in 1..Len(row) |-> IndexOf(RO, row[i])]
    IN
    /\ WithinBounds(rh2, oh2)
    /\ rowHeap' = [i \in 1..Len(RO) |-> rh2[RO[i]]]
    /\ outerHeap' = [j \in 1..Len(OO) |-> relabel(oh2[OO[j]])]
    /\ grid' = [g \in Grids |-> IF grid2[g] = 0 THEN 0 ELSE IndexOf(OO, grid2[g])]
    /\ heldOuter' = {IndexOf(OO, k) : k \in ho2}
    /\ heldRows' = {IndexOf(RO, r) : r \in hr2}
    /\ last' = call
    /\ pre' = [rowHeap |->
                  [i \in {i \in 1..Len(RO) : RO[i] <= Len(rowHeap)} |-> rowHeap[RO[i]]],
               outerHeap |->
                  [j \in {j \in 1..Len(OO) : OO[j] <= Len(outerHeap)} |->
                      relabel(outerHeap[OO[j]])]]

Init ==
    /\ rowHeap = <<>>
    /\ outerHeap = <<>>
    /\ grid = [g \in Grids |-> 0]
    /\ heldOuter = {}
    /\ heldRows = {}
    /\ last = NoCall
    /\ pre = NoPre

\* the caller has seen the result of the last call and moves on
Return ==
    /\ last.op # "none"
    /\ last' = NoCall
    /\ pre' = NoPre
    /\ UNCHANGED <<rowHeap, outerHeap, grid, heldOuter, heldRows>>

Idle == last.op = "none"

Call(op, g) == [NoCall EXCEPT !.op = op, !.g = g]

\* a constructor returned the markup with inline_keyboard c.ref
Built(call, g, c, ho2, hr2) ==
    Commit(call, c.rowHeap, c.outerHeap, [grid EXCEPT ![g] = c.ref], ho2, hr2)

\* InlineKeyboardMarkup()
NewDefault(g) ==
    /\ Idle /\ ~Constructed(g)
    /\ Built(Call("init", g), g, __init__(rowHeap, outerHeap, None),
             heldOuter, heldRows)

\* InlineKeyboardMarkup(rows), rows a list of lists the caller has just
\* built; keep says whether the caller goes on holding it
NewFromRows(g, rows, keep) ==
    /\ Idle /\ ~Constructed(g)
    /\ LET n == NewLists(rowHeap, outerHeap, rows)
       IN  Built(Call("init_rows", g), g, __init__(n.rowHeap, n.outerHeap, {n.ref}),
                 IF keep THEN heldOuter \cup {n.ref} ELSE heldOuter,
                 IF keep THEN heldRows \cup {Len(rowHeap) + i : i \in 1..Len(rows)}
                 ELSE heldRows)

\* InlineKeyboardMarkup(rows), rows a list the caller passed before
NewFromSame(g, k) ==
    /\ Idle /\ ~Constructed(g)
    /\ Built(Call("init_rows", g), g, __init__(rowHeap, outerHeap, {k}),
             heldOuter, heldRows)

FromButton(g, button) ==
    /\ Idle /\ ~Constructed(g)
    /\ Built(Call("from_button", g), g, from_button(rowHeap, outerHeap, button),
             heldOuter, heldRows)

\* from_row(button_row), button_row a list the caller has just built
FromRow(g, row, keep) ==
    /\ Idle /\ ~Constructed(g)
    /\ Built(Call("from_row", g), g,
             from_row(Append(rowHeap, row), outerHeap, Len(rowHeap) + 1),
             heldOuter,
             IF keep THEN heldRows \cup {Len(rowHeap) + 1} ELSE heldRows)

\* from_row(button_row), button_row a list the caller passed before
FromRowSame(g, r) ==
    /\ Idle /\ ~Constructed(g)
    /\ Built(Call("from_row", g), g, from_row(rowHeap, outerHeap, r),
             heldOuter, heldRows)

FromColumn(g, button_column) ==
    /\ Idle /\ ~Constructed(g)
    /\ Built(Call("from_column", g), g,
             from_column(rowHeap, outerHeap, button_column), heldOuter, heldRows)

\* de_json(data, bot): None leaves g unbuilt, else cls(keyboard)
DeJson(g, d) ==
    /\ Idle /\ ~Constructed(g)
    /\ LET v == de_json(d)
       IN  IF v = None
           THEN Commit([Call("de_json", g) EXCEPT !.other = d, !.ret = None],
                       rowHeap, outerHeap, grid, heldOuter, heldRows)
           ELSE LET n == NewLists(rowHeap, outerHeap, Val(v))
                IN  Built([Call("de_json", g) EXCEPT !.other = d, !.ret = v], g,
                          __init__(n.rowHeap, n.outerHeap, {n.ref}),
                          heldOuter, heldRows)

Here(g) == View(rowHeap, outerHeap, grid[g])

ToDict(g) ==
    /\ Idle /\ Constructed(g)
    /\ Commit([Call("to_dict", g) EXCEPT !.ret = to_dict(Here(g))],
              rowHeap, outerHeap, grid, heldOuter, heldRows)

Eq(g, other) ==
    /\ Idle /\ Constructed(g)
    /\ Commit([Call("eq", g) EXCEPT !.other = other,
                                    !.ret = __eq__(Here(g), other)],
              rowHeap, outerHeap, grid, heldOuter, heldRows)

Hash(g) ==
    /\ Idle /\ Constructed(g)
    /\ Commit([Call("hash", g) EXCEPT !.ret = __hash__(Here(g))],
              rowHeap, outerHeap, grid, heldOuter, heldRows)

AddButton(g, button, fr, ir, ic) ==
    /\ Idle /\ Constructed(g)
    /\ LET res == add_button(rowHeap, outerHeap, grid[g], button, fr, ir, ic)
       IN  Commit([Call("add_button", g) EXCEPT !.button = button,
                       !.from_row = fr, !.insert_row = ir,
                       !.insert_column = ic, !.err = res.err],
                  res.rowHeap, res.outerHeap, grid, heldOuter, heldRows)

AddFromMarkup(g, other_rows, index) ==
    /\ Idle /\ Constructed(g)
    /\ IF index = None THEN TRUE ELSE Val(index) <= Len(outerHeap[grid[g]])
    /\ LET res == add_from_markup(rowHeap, outerHeap, grid[g], other_rows, index)
       IN  Commit([Call("add_from_markup", g) EXCEPT !.other = Markup(other_rows),
                       !.index = index],
                  res.rowHeap, res.outerHeap, grid, heldOuter, heldRows)

\* ----------------------------------------------------------------- inputs
Columns == {c \in RowValues : Len(c) <= MaxRows}
EntryValues == {ButtonToDict(b) : b \in Buttons} \cup {EmptyButtonDict}
JsonRows == UNION {ListsOfLists(EntryValues, n, MaxButtons) : n \in 0..MaxRows}
JsonInputs == {NoneData, EmptyData} \cup
    {[isNone |-> FALSE, keys |-> {"inline_keyboard"}, inline_keyboard |-> rows] :
        rows \in JsonRows}
Others == {Markup(rows) : rows \in RowsValues} \cup {Foreign(rows) : rows \in RowsValues}
IndexArgs == {None} \cup {{v} : v \in 0..MaxRows}
SmallArgs == {None, {0}}

\* one markup, every constructor and method, the full argument ranges; the
\* caller drops the lists it passes
Next ==
    \/ Return
    \/ Idle /\ NewDefault("A")
    \/ Idle /\ \E rows \in RowsValues : NewFromRows("A", rows, FALSE)
    \/ Idle /\ \E b \in Buttons : FromButton("A", b)
    \/ Idle /\ \E row \in RowValues : FromRow("A", row, FALSE)
    \/ Idle /\ \E c \in Columns : FromColumn("A", c)
    \/ Idle /\ \E d \in JsonInputs : DeJson("A", d)
    \/ Idle /\ ToDict("A")
    \/ Idle /\ \E o \in Others : Eq("A", o)
    \/ Idle /\ Hash("A")
    \/ Idle /\ \E b \in Buttons, fr \in RowArgs, ir \in NewRowArgs, ic \in ColArgs :
                  AddButton("A", b, fr, ir, ic)
    \/ Idle /\ \E rows \in RowsValues, ix \in IndexArgs : AddFromMarkup("A", rows, ix)

Spec == Init /\ [][Next]_vars

\* two markups; the caller keeps the lists it passes and may pass them
\* again; add_button with small arguments
NextTwo ==
    \/ Return
    \/ Idle /\ \E g \in Grids : NewDefault(g)
    \/ Idle /\ \E g \in Grids, rows \in RowsValues : NewFromRows(g, rows, TRUE)
    \/ Idle /\ \E g \in Grids, k \in heldOuter : NewFromSame(g, k)
    \/ Idle /\ \E g \in Grids, row \in RowValues : FromRow(g, row, TRUE)
    \/ Idle /\ \E g \in Grids, r \in heldRows : FromRowSame(g, r)
    \/ Idle /\ \E g \in Grids, b \in Buttons,
                  fr \in SmallArgs, ir \in SmallArgs, ic \in SmallArgs :
                  AddButton(g, b, fr, ir, ic)

SpecTwo == Init /\ [][NextTwo]_vars

\* ------------------------------------------------------------ properties
\* what the properties are stated with: the rows of g before the last call,
\* a value clamped into [lo, hi], a list with x put at 0-based position j,
\* two grids alike position by position
PreView(g) == View(pre.rowHeap, pre.outerHeap, grid[g])
Clamp(v, lo, hi) == IF v < lo THEN lo ELSE IF v > hi THEN hi ELSE v
InsertAt(s, j, x) ==
    [i \in 1..(Len(s) + 1) |-> IF i <= j THEN s[i] ELSE IF i = j + 1 THEN x ELSE s[i - 1]]
SameGrid(a, b) ==
    /\ Len(a) = Len(b)
    /\ \A i \in 1..Len(a) :
          /\ Len(a[i]) = Len(b[i])
          /\ \A j \in 1..Len(a[i]) : ButtonEq(a[i][j], b[i][j])
Added == last.op = "add_button"
PreMaxRow == Len(PreView(last.g)) - 1

\* C1: add_button(button, from_row=r, insert_column=c) with insert_row unset
\* and r <= max_row (r may be negative) puts the button into row
\* clamp(r, 0, max_row) at index clamp(c, 0, L), L the length of that row
\* before the call, and changes no other row.  Stated for the calls that
\* return (C3 is about the calls that raise).
C1_InsertAtClampedColumn ==
    (/\ Added
     /\ last.from_row # None /\ last.insert_row = None /\ last.insert_column # None
     /\ Val(last.from_row) <= PreMaxRow
     /\ last.err = "none")
    => LET P == PreView(last.g)
           t == Clamp(Val(last.from_row), 0, PreMaxRow) + 1
           c == Clamp(Val(last.insert_column), 0, Len(P[t]))
       IN  Here(last.g) = [P EXCEPT ![t] = InsertAt(P[t], c, last.button)]

\* C2: a constructed markup always holds at least one row; a markup with no
\* buttons is [[]], never [].
C2_AtLeastOneRow ==
    \A g \in Grids : Constructed(g) => Len(outerHeap[grid[g]]) >= 1

\* C3: add_button fails in exactly two cases, from_row > max_row with
\* insert_row unset, and from_row and insert_row both set; every other call
\* succeeds and adds the button.  Stated for a markup that holds at least
\* one row.
C3_FailsInExactlyTwoCases ==
    (Added /\ PreMaxRow >= 0)
    => /\ (last.err # "none") <=>
              \/ (last.from_row # None /\ last.insert_row = None
                    /\ Val(last.from_row) > PreMaxRow)
              \/ (last.from_row # None /\ last.insert_row # None)
       /\ last.err = "none" =>
              Total(Here(last.g), 1) = Total(PreView(last.g), 1) + 1

\* C4: whenever add_button fails the lists are as they were before the call;
\* from_row > max_row with insert_row unset fails with IndexError, and
\* from_row and insert_row both set fails with AttributeError whatever the
\* values.
C4_FailureLeavesGridUnchanged ==
    Added
    => /\ last.err # "none" =>
              /\ rowHeap = pre.rowHeap
              /\ outerHeap = pre.outerHeap
              /\ Here(last.g) = PreView(last.g)
       /\ (last.from_row # None /\ last.insert_row = None
             /\ Val(last.from_row) > PreMaxRow) => last.err = "IndexError"
       /\ (last.from_row # None /\ last.insert_row # None)
             => last.err = "AttributeError"

C4_Witness ==
    /\ Added
    /\ last.err = "IndexError"
    /\ last.from_row # None /\ last.insert_row = None /\ last.insert_column # None
    /\ Val(last.from_row) > PreMaxRow
    /\ Total(Here(last.g), 1) >= 1

\* C5: add_button(button, insert_row=i) with from_row unset puts a new row
\* [button] at row index clamp(i, 0, max_row + 1): one row more, the rows
\* from that index on move down by one, every row that was there keeps its
\* buttons and its order; insert_column changes nothing.
C5_NewRowAtClampedIndex ==
    (Added /\ last.from_row = None /\ last.insert_row # None)
    => LET P == PreView(last.g)
           H == Here(last.g)
           at == Clamp(Val(last.insert_row), 0, PreMaxRow + 1)
       IN  /\ last.err = "none"
           /\ Len(H) = Len(P) + 1
           /\ H[at + 1] = <<last.button>>
           /\ \A i \in 1..Len(P) : IF i <= at THEN H[i] = P[i] ELSE H[i + 1] = P[i]

C5_Witness ==
    /\ Added /\ last.from_row = None /\ last.insert_row = {1}
    /\ last.insert_column # None
    /\ Len(PreView(last.g)) = 2
    /\ PreView(last.g)[1] # <<>>
    /\ Here(last.g)[2] = <<last.button>>

\* C6: add_button(button) with from_row, insert_row and insert_column all
\* unset always succeeds and puts the button at the end of the last row:
\* the same number of rows, every other row unchanged.
C6_AppendToLastRow ==
    (Added /\ last.from_row = None /\ last.insert_row = None
       /\ last.insert_column = None)
    => LET P == PreView(last.g)
       IN  /\ last.err = "none"
           /\ Here(last.g) = [P EXCEPT ![Len(P)] = Append(P[Len(P)], last.button)]

\* C7: two markups are equal exactly when they have the same number of
\* rows, the same number of buttons in every row and equal buttons at every
\* position; a markup never equals an object of another class; equal
\* markups have equal hashes.
C7_EqualityIsStructural ==
    last.op = "eq"
    => LET rows == Here(last.g)
           o == last.other
       IN  /\ last.ret <=> (o.class = "InlineKeyboardMarkup"
                              /\ SameGrid(rows, o.inline_keyboard))
           /\ o.class # "InlineKeyboardMarkup" => ~last.ret
           /\ last.ret => __hash__(rows) = __hash__(o.inline_keyboard)

C7_Witness ==
    /\ last.op = "eq" /\ last.ret
    /\ Len(Here(last.g)) = 2
    /\ Total(Here(last.g), 1) = 2

\* C8: for a markup whose buttons each survive their own to_dict and
\* de_json, de_json(to_dict(markup)) is a markup equal to it: the same rows,
\* the same buttons at the same positions; so for the default [[]].
C8_RoundTrip ==
    last.op = "to_dict"
    => LET rows == Here(last.g)
           back == de_json(last.ret)
       IN  (\A i \in 1..Len(rows) : \A j \in 1..Len(rows[i]) :
               LET b == ButtonDeJson(ButtonToDict(rows[i][j]))
               IN  b # None /\ ButtonEq(Val(b), rows[i][j]))
           => /\ back # None
              /\ __eq__(Val(back), Markup(rows))
              /\ SameGrid(Val(back), rows)

C8_Witness ==
    /\ last.op = "to_dict"
    /\ Len(Here(last.g)) = 3
    /\ Here(last.g)[2] = <<>>
    /\ Total(Here(last.g), 1) = 2
    /\ de_json(last.ret) # None

\* C9: a markup owns its rows: add_button on one markup never changes the
\* rows of another markup, nor a list the caller passed to a constructor.
C9_NoSharedRows ==
    Added
    => /\ \A h \in Grids \ {last.g} :
              (Constructed(h) /\ grid[h] \in DOMAIN pre.outerHeap)
              => Here(h) = PreView(h)
       /\ \A k \in heldOuter :
              View(rowHeap, outerHeap, k) = View(pre.rowHeap, pre.outerHeap, k)
       /\ \A r \in heldRows : rowHeap[r] = pre.rowHeap[r]

\* C10: merging markup B into markup A at index i puts B's rows into A from
\* index i on, in B's order and with B's buttons in order, moves A's rows
\* from index i on down by the number of B's rows and keeps A's rows in
\* order; with no index B's rows go after A's last row.
C10_MergeAtIndex ==
    last.op = "add_from_markup"
    => LET P == PreView(last.g)
           H == Here(last.g)
           B == last.other.inline_keyboard
           at == IF last.index = None THEN Len(P) ELSE Val(last.index)
       IN  /\ Len(H) = Len(P) + Len(B)
           /\ \A i \in 1..Len(B) : H[at + i] = B[i]
           /\ \A i \in 1..Len(P) : IF i <= at THEN H[i] = P[i] ELSE H[i + Len(B)] = P[i]

C10_Witness ==
    /\ last.op = "add_from_markup"
    /\ last.index = {1}
    /\ Len(PreView(last.g)) = 2
    /\ Len(last.other.inline_keyboard) = 1
    /\ Total(last.other.inline_keyboard, 1) = 1
    /\ Total(PreView(last.g), 1) = 1

\* the entries of a serialized row whose deserialization yields a value
Yielding(row) == SelectSeq(row, LAMBDA e : ButtonDeJson(e) # None)

\* C11: de_json on an absent or empty mapping returns no value and builds no
\* instance; on a non-empty mapping it returns an instance whose grid has one
\* row per input row, in order, each row holding exactly the buttons whose
\* deserialization yielded a value, in input order, the others left out.
C11_SkipsButtonsWithoutValue ==
    last.op = "de_json" =>
        LET d == last.other
        IN  /\ last.err = "none"
            /\ IF d.isNone \/ d.keys = {}
               THEN last.ret = None /\ ~Constructed(last.g)
               ELSE LET rows == d.inline_keyboard
                        H == Here(last.g)
                    IN  /\ last.ret # None
                        /\ Constructed(last.g)
                        /\ Len(H) = Len(rows)
                        /\ \A i \in 1..Len(rows) :
                              LET kept == Yielding(rows[i])
                              IN  /\ Len(H[i]) = Len(kept)
                                  /\ \A j \in 1..Len(kept) :
                                        {H[i][j]} = ButtonDeJson(kept[j])

\* a two-row input whose first row holds a button without a value in front of
\* one with a value: the call returned an instance and the first is left out
C11_Witness ==
    /\ last.op = "de_json"
    /\ last.ret # None
    /\ Constructed(last.g)
    /\ Len(last.other.inline_keyboard) = 2
    /\ Len(last.other.inline_keyboard[1]) = 2
    /\ ButtonDeJson(last.other.inline_keyboard[1][1]) = None
    /\ ButtonDeJson(last.other.inline_keyboard[1][2]) # None
    /\ Len(Here(last.g)[1]) = 1
====
